---- MODULE Spec2Model ----
(***************************************************************************)
(* Model of cvd.py: the CallendarVanDusen class (constructor and           *)
(* temperature method).                                                    *)
(*                                                                         *)
(* Numbers.  Python floats are modelled as signed decimal fixed-point      *)
(* numbers with Digits fractional digits, held as arbitrary-precision      *)
(* integers (TLC's own integers are 32 bits wide, too narrow for the       *)
(* discriminant).  A magnitude is a sequence of limbs in base Base, least  *)
(* significant first, with no leading zero limb (<<>> is 0); a signed      *)
(* integer is a record [neg, mag].  Float literals of the source are kept  *)
(* as [m, e], meaning m * 10^e, so 3.9080e-3 is [m |-> 39080, e |-> -7].   *)
(*                                                                         *)
(* solve().  cvd.py calls sympy.solve on r = r0*(1 + A*t + B*t**2 +        *)
(* C*(t - 100)**3) for t, keeping r symbolic, and evaluates the entry of   *)
(* index 1 of the returned list at r = r_measured.  With C = 0.0 the cubic *)
(* term vanishes and solve returns the two roots of the quadratic,         *)
(*     -A/(2B) - sqrt(A^2 - 4B(1 - r/r0))/(2|B|)                           *)
(*     -A/(2B) + sqrt(A^2 - 4B(1 - r/r0))/(2|B|)                           *)
(* in this order: solve sorts its solution list with default_sort_key, and *)
(* the two expressions differ only in the sign of the coefficient of the   *)
(* radical, the negative one sorting first.  With r0 = 0 the equation no   *)
(* longer contains t and solve returns the empty list.  With C # 0 solve   *)
(* returns the three Cardano expressions of the cubic; their evaluation is *)
(* not computed here, and a call on such a model is recorded as having     *)
(* returned a value of form "cubic" with no numeric content.               *)
(***************************************************************************)
EXTENDS Integers, Sequences, FiniteSets, TLC

VARIABLES pc, standard, subzero, self, last

vars == <<pc, standard, subzero, self, last>>

(***************************************************************************)
(* Bounds of the model.                                                    *)
(***************************************************************************)
\* fractional decimal digits kept for a temperature or a resistance
Digits == 8

(***************************************************************************)
(* Arbitrary-precision naturals.                                           *)
(***************************************************************************)
Base == 10 ^ 4

Limb(x, i) == IF i <= Len(x) THEN x[i] ELSE 0

MaxI(a, b) == IF a >= b THEN a ELSE b

AbsI(a) == IF a < 0 THEN -a ELSE a

SgnI(a) == IF a < 0 THEN -1 ELSE IF a > 0 THEN 1 ELSE 0

RECURSIVE Norm(_)
Norm(x) ==
  IF Len(x) > 0 /\ x[Len(x)] = 0 THEN Norm(SubSeq(x, 1, Len(x) - 1)) ELSE x

RECURSIVE FromNat(_)
FromNat(n) == IF n = 0 THEN <<>> ELSE <<n % Base>> \o FromNat(n \div Base)

RECURSIVE AddFrom(_, _, _, _)
AddFrom(x, y, i, c) ==
  IF i > MaxI(Len(x), Len(y))
  THEN (IF c = 0 THEN <<>> ELSE <<c>>)
  ELSE LET s == Limb(x, i) + Limb(y, i) + c
       IN  <<s % Base>> \o AddFrom(x, y, i + 1, s \div Base)

BAdd(x, y) == AddFrom(x, y, 1, 0)

RECURSIVE SubFrom(_, _, _, _)
SubFrom(x, y, i, b) ==
  IF i > Len(x)
  THEN <<>>
  ELSE LET d == Limb(x, i) - Limb(y, i) - b
       IN  IF d < 0 THEN <<d + Base>> \o SubFrom(x, y, i + 1, 1)
                    ELSE <<d>> \o SubFrom(x, y, i + 1, 0)

\* x - y for x >= y
BSub(x, y) == Norm(SubFrom(x, y, 1, 0))

RECURSIVE CmpFrom(_, _, _)
CmpFrom(x, y, i) ==
  IF i = 0 THEN 0
  ELSE IF x[i] < y[i] THEN -1
  ELSE IF x[i] > y[i] THEN 1
  ELSE CmpFrom(x, y, i - 1)

BCmp(x, y) ==
  IF Len(x) < Len(y) THEN -1
  ELSE IF Len(x) > Len(y) THEN 1
  ELSE CmpFrom(x, y, Len(x))

RECURSIVE MulSmallFrom(_, _, _, _)
MulSmallFrom(x, k, i, c) ==
  IF i > Len(x)
  THEN FromNat(c)
  ELSE LET p == x[i] * k + c
       IN  <<p % Base>> \o MulSmallFrom(x, k, i + 1, p \div Base)

\* x * k for a natural k of at most 2 * 10^5
BMulSmall(x, k) == IF k = 0 THEN <<>> ELSE MulSmallFrom(x, k, 1, 0)

\* x * Base^n
BShift(x, n) == IF x = <<>> THEN <<>> ELSE [i \in 1..n |-> 0] \o x

RECURSIVE MulFrom(_, _, _)
MulFrom(x, y, i) ==
  IF i > Len(y)
  THEN <<>>
  ELSE BAdd(BShift(BMulSmall(x, y[i]), i - 1), MulFrom(x, y, i + 1))

BMul(x, y) == MulFrom(x, y, 1)

RECURSIVE DivSmallFrom(_, _, _, _)
DivSmallFrom(x, k, i, r) ==
  IF i = 0
  THEN <<>>
  ELSE LET n == r * Base + x[i]
       IN  DivSmallFrom(x, k, i - 1, n % k) \o <<n \div k>>

\* floor(x / k) for a natural k, 0 < k <= 2 * 10^5
BDivSmall(x, k) == Norm(DivSmallFrom(x, k, Len(x), 0))

\* 10^n
BPow10(n) == BShift(FromNat(10 ^ (n % 4)), n \div 4)

\* the largest d in lo..hi with (p * Base + d)^2 <= n
RECURSIVE SqrtLimb(_, _, _, _)
SqrtLimb(n, p, lo, hi) ==
  IF lo = hi
  THEN lo
  ELSE LET mid == (lo + hi + 1) \div 2
           c   == BAdd(BShift(p, 1), FromNat(mid))
       IN  IF BCmp(BMul(c, c), n) <= 0 THEN SqrtLimb(n, p, mid, hi)
                                       ELSE SqrtLimb(n, p, lo, mid - 1)

\* floor(sqrt(n)), one limb of the result at a time from the top; k limbs
\* of the result are still to be found and p holds the ones found
RECURSIVE SqrtFrom(_, _, _)
SqrtFrom(n, p, k) ==
  IF k = 0
  THEN p
  ELSE LET top == SubSeq(n, 2 * (k - 1) + 1, Len(n))
           d   == SqrtLimb(top, p, 0, Base - 1)
       IN  SqrtFrom(n, BAdd(BShift(p, 1), FromNat(d)), k - 1)

BSqrt(n) == SqrtFrom(n, <<>>, (Len(n) + 1) \div 2)

(***************************************************************************)
(* Signed arbitrary-precision integers.                                    *)
(***************************************************************************)
ZMk(neg, mag) == [neg |-> neg /\ mag # <<>>, mag |-> mag]

ZInt(n) == ZMk(n < 0, FromNat(AbsI(n)))

Zero == ZInt(0)

ZNeg(z) == ZMk(~z.neg, z.mag)

ZAbs(z) == ZMk(FALSE, z.mag)

ZAdd(x, y) ==
  IF x.neg = y.neg
  THEN ZMk(x.neg, BAdd(x.mag, y.mag))
  ELSE IF BCmp(x.mag, y.mag) >= 0
       THEN ZMk(x.neg, BSub(x.mag, y.mag))
       ELSE ZMk(y.neg, BSub(y.mag, x.mag))

ZSub(x, y) == ZAdd(x, ZNeg(y))

ZMul(x, y) == ZMk(x.neg # y.neg, BMul(x.mag, y.mag))

\* x * 10^n
ZScale(x, n) == ZMk(x.neg, BMul(x.mag, BPow10(n)))

\* x / k truncated toward zero, for an integer k, 0 < |k| <= 2 * 10^5
ZDivInt(x, k) == ZMk(x.neg # (k < 0), BDivSmall(x.mag, AbsI(k)))

ZCmp(x, y) ==
  IF x.neg /\ ~y.neg THEN -1
  ELSE IF ~x.neg /\ y.neg THEN 1
  ELSE IF x.neg THEN BCmp(y.mag, x.mag)
  ELSE BCmp(x.mag, y.mag)

ZLess(x, y) == ZCmp(x, y) < 0

ZLeq(x, y) == ZCmp(x, y) <= 0

\* the fixed-point number (Digits fractional digits) of the integer n
Fix(n) == ZScale(ZInt(n), Digits)

(***************************************************************************)
(* Float literals and their conversion to integers.                        *)
(***************************************************************************)
\* the literal m * 10^e
Dec(m, e) == [m |-> m, e |-> e]

MinI(a, b) == IF a <= b THEN a ELSE b

\* the integer d * 10^k, for a literal d with d.e + k >= 0
ZDec(d, k) == ZScale(ZInt(d.m), d.e + k)

\* x / 10^n truncated toward zero
RECURSIVE ZUnscale(_, _)
ZUnscale(x, n) ==
  IF n = 0 THEN x
  ELSE IF n >= 4 THEN ZUnscale(ZDivInt(x, 10 ^ 4), n - 4)
  ELSE ZDivInt(x, 10 ^ n)

(***************************************************************************)
(* Inputs.                                                                 *)
(***************************************************************************)
\* standard names given to the constructor
StandardNames == {"DIN43760", "American", "ITS-90", "Foo", "din43760"}

\* reference resistances r0 given to temperature(), in ohms
R0Values == {-100, 0, 100, 500}

\* measured resistances given to temperature(), in ohms
RValues == {100, 200, 4000}

\* temperatures whose forward resistance is given to temperature(), in degrees
TValues == {-200, 0, 850}

(***************************************************************************)
(* State.                                                                  *)
(*   pc        "start" before the constructor has run, then "constructed"  *)
(*             or, when it raised ValueError, "raised"                     *)
(*   standard, subzero   the constructor's arguments                       *)
(*   self      the instance's attributes; the empty function while there   *)
(*             is no instance                                              *)
(*   last      the last temperature() call: its arguments and outcome      *)
(***************************************************************************)
NoModel == <<>>

NoValue == [kind |-> "none", form |-> "none", error |-> "none",
            re |-> Zero, im |-> Zero]

NoCall == [called |-> FALSE, r0 |-> 0, r_measured |-> Zero,
           forward |-> FALSE, t |-> 0, out |-> NoValue]

Init ==
  /\ pc = "start"
  /\ standard = "DIN43760"
  /\ subzero = FALSE
  /\ self = NoModel
  /\ last = NoCall

(***************************************************************************)
(* CallendarVanDusen.__init__(standard, subzero)                           *)
(***************************************************************************)
Attrs(A, B, C) == [r |-> "r", t |-> "t", A |-> A, B |-> B, C |-> C]

Raise == /\ pc' = "raised"
         /\ self' = NoModel

Construct(A, B, C) == /\ pc' = "constructed"
                      /\ self' = Attrs(A, B, C)

\* mutant: the American branch sets C without testing subzero
CallendarVanDusen_SubzeroIgnored(std, sz) ==
  /\ pc = "start"
  /\ standard' = std
  /\ subzero' = sz
  /\ IF std = "DIN43760"
     THEN Construct(Dec(39080, -7), Dec(-58019, -11),
                    IF sz THEN Dec(-42735, -16) ELSE Dec(0, 0))
     ELSE IF std = "American"
     THEN Construct(Dec(39692, -7), Dec(-58495, -11), Dec(-42325, -16))
     ELSE IF std = "ITS-90"
     THEN Construct(Dec(39848, -7), Dec(-5870, -10),
                    IF sz THEN Dec(-40000, -16) ELSE Dec(0, 0))
     ELSE Raise
  /\ UNCHANGED last

\* mutant: an unrecognized name falls back to the default standard
CallendarVanDusen_FallsBack(std, sz) ==
  /\ pc = "start"
  /\ standard' = std
  /\ subzero' = sz
  /\ IF std = "American"
     THEN Construct(Dec(39692, -7), Dec(-58495, -11),
                    IF sz THEN Dec(-42325, -16) ELSE Dec(0, 0))
     ELSE IF std = "ITS-90"
     THEN Construct(Dec(39848, -7), Dec(-5870, -10),
                    IF sz THEN Dec(-40000, -16) ELSE Dec(0, 0))
     ELSE Construct(Dec(39080, -7), Dec(-58019, -11),
                    IF sz THEN Dec(-42735, -16) ELSE Dec(0, 0))
  /\ UNCHANGED last

CallendarVanDusen(std, sz) ==
  /\ pc = "start"
  /\ standard' = std
  /\ subzero' = sz
  /\ IF std = "DIN43760"
     THEN Construct(Dec(39080, -7), Dec(-58019, -11),
                    IF sz THEN Dec(-42735, -16) ELSE Dec(0, 0))
     ELSE IF std = "American"
     THEN Construct(Dec(39692, -7), Dec(-58495, -11),
                    IF sz THEN Dec(-42325, -16) ELSE Dec(0, 0))
     ELSE IF std = "ITS-90"
     THEN Construct(Dec(39848, -7), Dec(-5870, -10),
                    IF sz THEN Dec(-40000, -16) ELSE Dec(0, 0))
     ELSE Raise
  /\ UNCHANGED last

(***************************************************************************)
(* CallendarVanDusen.temperature(r0, r_measured)                           *)
(***************************************************************************)
\* the common decimal scale of the coefficients of the quadratic: A * 10^k
\* and B * 10^k are integers
QuadScale(s) == -MinI(s.A.e, s.B.e)

IntCoef(d, k) == d.m * 10 ^ (d.e + k)

\* r0*(1.0 + A*t + B*t**2 + C*(t - 100.0)**3) at an integer temperature t,
\* in fixed point
Resistance(s, r0, t) ==
  LET k == -MinI(MinI(s.A.e, s.B.e), s.C.e)
      T == ZInt(t)
      U == ZInt(t - 100)
      p == ZAdd(ZAdd(ZScale(ZInt(1), k), ZMul(ZDec(s.A, k), T)),
                ZAdd(ZMul(ZDec(s.B, k), ZMul(T, T)),
                     ZMul(ZDec(s.C, k), ZMul(U, ZMul(U, U)))))
  IN  ZUnscale(ZScale(ZMul(ZInt(r0), p), Digits), k)

\* solve(cvd, t): the solutions for t as expressions in the symbol r, in
\* the order solve returns them
Solve(s, r0) ==
  IF r0 = 0
  THEN <<>>
  ELSE IF s.C.m # 0
  THEN <<[form |-> "cubic", sign |-> 0], [form |-> "cubic", sign |-> 0],
         [form |-> "cubic", sign |-> 0]>>
  ELSE <<[form |-> "quadratic", sign |-> -1],
         [form |-> "quadratic", sign |-> 1]>>

\* mutant: the discriminant with 2B in place of 4B
Discriminant_TwoB(s, r0, r_measured) ==
  LET k  == -MinI(s.A.e, s.B.e)
      ak == ZInt(s.A.m * 10 ^ (s.A.e + k))
      bk == s.B.m * 10 ^ (s.B.e + k)
  IN  ZSub(ZScale(ZMul(ak, ak), 2 * Digits),
           ZDivInt(ZMul(ZScale(ZInt(2 * bk), k + Digits),
                        ZSub(Fix(r0), r_measured)), r0))

\* the discriminant A^2 - 4B(1 - r/r0), times 10^(2k + 2 Digits)
Discriminant(s, r0, r_measured) ==
  LET k  == QuadScale(s)
      ak == ZInt(IntCoef(s.A, k))
      bk == IntCoef(s.B, k)
  IN  ZSub(ZScale(ZMul(ak, ak), 2 * Digits),
           ZDivInt(ZMul(ZScale(ZInt(4 * bk), k + Digits),
                        ZSub(Fix(r0), r_measured)), r0))

\* expr.subs(r, r_measured): the value of one solution at r = r_measured,
\* -A/(2B) + sign * sqrt(A^2 - 4B(1 - r/r0))/(2|B|), complex when the
\* discriminant is negative
Subs(expr, s, r0, r_measured) ==
  IF expr.form = "cubic"
  THEN [kind |-> "returned", form |-> "cubic", error |-> "none",
        re |-> Zero, im |-> Zero]
  ELSE LET k   == QuadScale(s)
           ak  == IntCoef(s.A, k)
           bk  == IntCoef(s.B, k)
           n   == Discriminant(s, r0, r_measured)
           mid == ZScale(ZInt(-SgnI(bk) * ak), Digits)
           rad == ZMk(expr.sign < 0, BSqrt(n.mag))
       IN  IF n.neg
           THEN [kind |-> "returned", form |-> "complex", error |-> "none",
                 re |-> ZDivInt(mid, 2 * AbsI(bk)),
                 im |-> ZDivInt(rad, 2 * AbsI(bk))]
           ELSE [kind |-> "returned", form |-> "real", error |-> "none",
                 re |-> ZDivInt(ZAdd(mid, rad), 2 * AbsI(bk)),
                 im |-> Zero]

IndexError == [kind |-> "raised", form |-> "none", error |-> "IndexError",
               re |-> Zero, im |-> Zero]

\* mutant: r0 <= 0 is rejected before the equation is solved
TemperatureResult_Validating(s, r0, r_measured) ==
  LET sol == Solve(s, r0)
  IN  IF r0 <= 0
      THEN [kind |-> "raised", form |-> "none", error |-> "DomainError",
            re |-> Zero, im |-> Zero]
      ELSE Subs(sol[2], s, r0, r_measured)

\* mutant: a complex value or one outside -200 .. +850 is not returned
TemperatureResult_RangeChecked(s, r0, r_measured) ==
  LET sol == Solve(s, r0)
      v   == Subs(sol[2], s, r0, r_measured)
  IN  IF Len(sol) < 2
      THEN IndexError
      ELSE IF v.form = "cubic"
           \/ (/\ v.form = "real"
               /\ ZLeq(Fix(-200), v.re)
               /\ ZLeq(v.re, Fix(850)))
      THEN v
      ELSE [kind |-> "raised", form |-> "none", error |-> "NoSolution",
            re |-> Zero, im |-> Zero]

\* the body of temperature(): s = solve(cvd, self.t);
\* t = s[1].subs(self.r, r_measured); return t
TemperatureResult(s, r0, r_measured) ==
  LET sol == Solve(s, r0)
  IN  IF Len(sol) < 2
      THEN IndexError
      ELSE Subs(sol[2], s, r0, r_measured)

\* mutant: the call clears the model's cubic coefficient
temperature_ClearsC(r0, r_measured) ==
  /\ pc = "constructed"
  /\ last' = [called |-> TRUE, r0 |-> r0, r_measured |-> r_measured,
              forward |-> FALSE, t |-> 0,
              out |-> TemperatureResult(self, r0, r_measured)]
  /\ self' = [self EXCEPT !.C = Dec(0, 0)]
  /\ UNCHANGED <<pc, standard, subzero>>

temperature(r0, r_measured) ==
  /\ pc = "constructed"
  /\ last' = [called |-> TRUE, r0 |-> r0, r_measured |-> r_measured,
              forward |-> FALSE, t |-> 0,
              out |-> TemperatureResult(self, r0, r_measured)]
  /\ UNCHANGED <<pc, standard, subzero, self>>

\* temperature() called on the resistance the polynomial gives for t
RoundTrip(r0, t) ==
  /\ pc = "constructed"
  /\ LET r_measured == Resistance(self, r0, t)
     IN  last' = [called |-> TRUE, r0 |-> r0, r_measured |-> r_measured,
                  forward |-> TRUE, t |-> t,
                  out |-> TemperatureResult(self, r0, r_measured)]
  /\ UNCHANGED <<pc, standard, subzero, self>>

Next ==
  \/ \E std \in StandardNames, sz \in BOOLEAN : CallendarVanDusen(std, sz)
  \/ \E r0 \in R0Values, r \in RValues : temperature(r0, Fix(r))
  \/ \E r0 \in R0Values, t \in TValues : RoundTrip(r0, t)

Spec == Init /\ [][Next]_vars

(***************************************************************************)
(* Vocabulary of the claims.                                               *)
(***************************************************************************)
KnownStandards == {"DIN43760", "American", "ITS-90"}

\* two literals denote the same number
SameValue(x, y) == ZDec(x, 16) = ZDec(y, 16)

\* the coefficient table of the specification
TableA(std) ==
  CASE std = "DIN43760" -> Dec(39080, -7)
    [] std = "American" -> Dec(39692, -7)
    [] std = "ITS-90"   -> Dec(39848, -7)

TableB(std) ==
  CASE std = "DIN43760" -> Dec(-58019, -11)
    [] std = "American" -> Dec(-58495, -11)
    [] std = "ITS-90"   -> Dec(-5870, -10)

TableC(std) ==
  CASE std = "DIN43760" -> Dec(-42735, -16)
    [] std = "American" -> Dec(-42325, -16)
    [] std = "ITS-90"   -> Dec(-40000, -16)

\* 10^-6 at the decimal scale 10^scale
Tolerance(scale) == ZScale(ZInt(1), scale - 6)

\* |x - y| <= 10^-6 for fixed-point x and y
Close(x, y) == ZLeq(ZAbs(ZSub(x, y)), Tolerance(Digits))

\* a fixed-point temperature within the rated range -200 .. +850
InRatedRange(v) == ZLeq(Fix(-200), v) /\ ZLeq(v, Fix(850))

\* a fixed-point resistance within the rated resistance range of the model:
\* between the resistances the polynomial gives at -200 and at +850
InRatedResistance(s, r0, r) ==
  /\ ZLeq(Resistance(s, r0, -200), r)
  /\ ZLeq(r, Resistance(s, r0, 850))

\* a call of temperature() on a model with subzero disabled
QuadraticCall == pc = "constructed" /\ last.called /\ self.C.m = 0

\* r0*(1 + A*t + B*t^2) - r_measured for the returned (possibly complex)
\* t = v.re + i*v.im, real and imaginary part, both times
\* 10^(k + 2 Digits) and computed exactly
ResidualRe(s, r0, r_measured, v) ==
  LET k  == QuadScale(s)
      ak == ZInt(IntCoef(s.A, k))
      bk == ZInt(IntCoef(s.B, k))
      p  == ZAdd(ZAdd(ZScale(ZInt(1), k + 2 * Digits),
                      ZScale(ZMul(ak, v.re), Digits)),
                 ZMul(bk, ZSub(ZMul(v.re, v.re), ZMul(v.im, v.im))))
  IN  ZSub(ZMul(ZInt(r0), p), ZScale(r_measured, k + Digits))

ResidualIm(s, r0, v) ==
  LET k  == QuadScale(s)
      ak == ZInt(IntCoef(s.A, k))
      bk == ZInt(IntCoef(s.B, k))
  IN  ZMul(ZInt(r0),
           ZMul(v.im, ZAdd(ZScale(ak, Digits),
                           ZMul(ZInt(2), ZMul(bk, v.re)))))

(***************************************************************************)
(* Claims.                                                                 *)
(***************************************************************************)

\* C1: a constructed model holds the A and B of its standard's row of the
\* coefficient table; its C is exactly 0 when subzero is false and the
\* row's non-zero C when subzero is true.
C1_CoefficientTable ==
  pc = "constructed" =>
    /\ standard \in KnownStandards
    /\ SameValue(self.A, TableA(standard))
    /\ SameValue(self.B, TableB(standard))
    /\ (~subzero => self.C.m = 0)
    /\ (subzero => self.C.m # 0 /\ SameValue(self.C, TableC(standard)))

C1_Witness ==
  /\ pc = "constructed"
  /\ standard = "American"
  /\ subzero
  /\ self.C = Dec(-42325, -16)

\* C2: construction raises, and leaves no model, exactly when the standard
\* name is not one of the three recognized names, whatever the subzero
\* flag; with a recognized name it never raises.
C2_UnknownStandardRaises ==
  pc # "start" =>
    /\ (standard \notin KnownStandards => pc = "raised" /\ self = NoModel)
    /\ (standard \in KnownStandards => pc = "constructed" /\ self # NoModel)

C2_Witness ==
  /\ pc = "raised"
  /\ standard = "Foo"
  /\ subzero
  /\ self = NoModel

\* C3: with subzero disabled and r0 > 0, temperature(r0, r0) returns 0
\* within 1e-6.
C3_ZeroAtR0 ==
  (QuadraticCall /\ last.r0 > 0 /\ last.r_measured = Fix(last.r0)) =>
    /\ last.out.form = "real"
    /\ Close(last.out.re, Fix(0))

\* C4: for r0 > 0 and readings r1 < r2 within the rated resistance range,
\* temperature(r0, r1) < temperature(r0, r2).  r1 is the reading of the
\* last call and r2 ranges over the readings.
C4_Monotonic ==
  (QuadraticCall /\ last.r0 > 0 /\ last.out.form = "real"
                 /\ InRatedResistance(self, last.r0, last.r_measured)) =>
    \A r2 \in RValues :
      (/\ ZLess(last.r_measured, Fix(r2))
       /\ InRatedResistance(self, last.r0, Fix(r2))) =>
        LET t2 == TemperatureResult(self, last.r0, Fix(r2))
        IN  t2.form = "real" /\ ZLess(last.out.re, t2.re)

\* C5: with subzero disabled, r0 > 0 and t in [0, 850], temperature() of
\* the resistance the polynomial gives for t returns t within 1e-6.
C5_RoundTrip ==
  (QuadraticCall /\ last.forward /\ last.r0 > 0
                 /\ last.t >= 0 /\ last.t <= 850) =>
    /\ last.out.form = "real"
    /\ Close(last.out.re, Fix(last.t))

C8_Immutable ==
  [][pc = "constructed" => (pc' = "constructed" /\ self' = self)]_vars

\* a failed call after which the model still holds its coefficients
C8_Witness ==
  /\ pc = "constructed"
  /\ last.called
  /\ last.out.kind = "raised"
  /\ SameValue(self.A, TableA(standard))

\* C9: a value t returned on a model with subzero disabled satisfies
\* r0*(1 + A*t + B*t^2) = r_measured within 1e-6.
C9_ForwardResidual ==
  (QuadraticCall /\ last.out.kind = "returned") =>
    LET k == QuadScale(self)
    IN  /\ ZLeq(ZAbs(ResidualRe(self, last.r0, last.r_measured, last.out)),
                Tolerance(k + 2 * Digits))
        /\ ZLeq(ZAbs(ResidualIm(self, last.r0, last.out)),
                Tolerance(k + 2 * Digits))

\* the reference scenario: DIN43760, subzero disabled, r0 = 500, r = 200
C9_Witness ==
  /\ QuadraticCall
  /\ standard = "DIN43760"
  /\ last.r0 = 500
  /\ last.r_measured = Fix(200)
  /\ last.out.kind = "returned"
  /\ last.out.form = "real"

\* C10: for r0 > 0 and a reading within the rated resistance range, the
\* value returned is the physical root: real and within the rated range
\* -200 .. +850, never the other root.
C10_PhysicalRoot ==
  (QuadraticCall /\ last.r0 > 0
                 /\ InRatedResistance(self, last.r0, last.r_measured)) =>
    /\ last.out.kind = "returned"
    /\ last.out.form = "real"
    /\ InRatedRange(last.out.re)

====
